---- MODULE Spec2Model ----
(***************************************************************************)
(* SaganBot (src/lib/saganbot.js): a Slack bot that answers messages       *)
(* mentioning "vra" from a glossary kept in SQLite.  The model covers the  *)
(* constructor, the 'start' handler (_loadBotUser, _connectDb,             *)
(* _firstRunCheck and its callback, the INSERT/UPDATE it issues), the      *)
(* 'message' handler (_onMessage with its four filters) and the glossary   *)
(* lookup callback of _replyWithDescription.                               *)
(*                                                                         *)
(* JavaScript values are tagged records, strings are sequences of          *)
(* one-character strings, so that slice, toLowerCase, indexOf, [0] and     *)
(* the unary plus are computed and not assumed.                            *)
(***************************************************************************)
EXTENDS Integers, Sequences, FiniteSets, TLC

\* ------------------------------------------------------------------ bounds
MaxRuns == 2        \* processes started against the same store
MaxMsgs == 2        \* inbound transport events over the whole behaviour

\* ------------------------------------------------------- JavaScript values
Undefined == [t |-> "undefined"]
Null      == [t |-> "null"]
NaN       == [t |-> "nan"]
Str(s)    == [t |-> "string", s |-> s]
Num(n)    == [t |-> "number", n |-> n]

\* Boolean(v), used by `a || b` and by _isChatMessage
Truthy(v) ==
    CASE v.t = "undefined" -> FALSE
      [] v.t = "null"      -> FALSE
      [] v.t = "nan"       -> FALSE
      [] v.t = "string"    -> Len(v.s) > 0
      [] v.t = "number"    -> v.n # 0
      [] OTHER             -> TRUE

\* String.prototype.toLowerCase on the characters the model uses
LowerChar(c) ==
    CASE c = "A" -> "a" [] c = "B" -> "b" [] c = "C" -> "c" [] c = "R" -> "r"
      [] c = "V" -> "v" [] OTHER -> c

toLowerCase(s) == [i \in 1..Len(s) |-> LowerChar(s[i])]

\* String.prototype.indexOf: first 0-based position of needle, or -1
indexOf(hay, needle) ==
    LET starts == {i \in 0..(Len(hay) - Len(needle)) :
                      \A j \in 1..Len(needle) : hay[i + j] = needle[j]}
    IN  IF starts = {} THEN -1
        ELSE CHOOSE i \in starts : \A k \in starts : i <= k

\* String.prototype.slice(from, to) for 0 <= from, to = length
slice(s, from, to) ==
    IF from >= to THEN <<>> ELSE [i \in 1..(to - from) |-> s[from + i]]

\* ToNumber on a string (the unary plus): surrounding blanks are dropped, the
\* empty string is 0, a run of decimal digits is its value, the rest is NaN.
\* (Signs, fractions, exponents, hex and "Infinity" are outside the alphabet.)
IsDigit(c) == c \in {"0", "1", "2", "3", "4", "5", "6", "7", "8", "9"}

DigitVal(c) ==
    CASE c = "0" -> 0 [] c = "1" -> 1 [] c = "2" -> 2 [] c = "3" -> 3
      [] c = "4" -> 4 [] c = "5" -> 5 [] c = "6" -> 6 [] c = "7" -> 7
      [] c = "8" -> 8 [] c = "9" -> 9

RECURSIVE Trim(_)
Trim(s) ==
    IF s = <<>> THEN s
    ELSE IF Head(s) = " " THEN Trim(Tail(s))
    ELSE IF s[Len(s)] = " " THEN Trim(SubSeq(s, 1, Len(s) - 1))
    ELSE s

RECURSIVE DecimalValue(_)
DecimalValue(s) ==
    IF s = <<>> THEN 0
    ELSE 10 * DecimalValue(SubSeq(s, 1, Len(s) - 1)) + DigitVal(s[Len(s)])

ToNumber(s) ==
    LET t == Trim(s)
    IN  IF t = <<>> THEN Num(0)
        ELSE IF \A i \in 1..Len(t) : IsDigit(t[i]) THEN Num(DecimalValue(t))
        ELSE NaN

\* property read on an Array: only `length` (and indices) exist
ArrayGet(arr, prop) ==
    IF prop = "length" THEN Num(Len(arr)) ELSE Undefined

\* ------------------------------------------------------------- the roster
\* this.channels, as delivered by the transport at login; a workspace always
\* has its general channel, so the roster is never empty.
general == [id |-> Str(<<"C", "1">>), name |-> "general"]
random  == [id |-> Str(<<"C", "2">>), name |-> "random"]
channels == <<general, random>>

\* ids a message may carry: a roster channel, a public channel created after
\* login (not in the roster), a direct message, and no channel at all
ChannelIds ==
    {Str(<<"C", "2">>), Str(<<"C", "9">>), Str(<<"D", "1">>), Undefined}

alice == [id |-> "U1", name |-> <<"a", "l", "i", "c", "e">>]
UserIds == {"U1", "UBOT"}

\* settings.name as given to the constructor
SettingsNames == {Undefined, Str(<<"B", "o", "t">>)}

\* ------------------------------------------------------------ the glossary
\* rows of GLOSSARY(TERM, DESCRIPTION, PREREQS), populated out of band
GLOSSARY ==
    { [TERM |-> <<"c", "l", "o", "u", "d">>,
       DESCRIPTION |-> "A pool of compute.", PREREQS |-> "none"],
      [TERM |-> <<"7">>,
       DESCRIPTION |-> "Seven.", PREREQS |-> "none"] }

\* message.text values
VraCloud == Str(<<"v", "r", "a", " ", "c", "l", "o", "u", "d">>)
Texts ==
    { VraCloud,
      Str(<<"V", "R", "A", " ", "7">>),
      Str(<<"v", "r", "a">>),
      Str(<<"h", "i", " ", "b", "o", "t">>),
      Str(<<"h", "i", " ", "s", "a", "g", "a", "n", "b", "o", "t">>),
      Str(<<>>),
      Undefined }

\* inbound events: every chat-typed message over the fields above, and events
\* of another type with the fields that would pass or fail the later filters
Messages ==
    [type : {"message"}, text : Texts, user : UserIds, channel : ChannelIds]
    \cup [type : {"user_typing"}, text : {VraCloud, Undefined},
          user : UserIds, channel : {Str(<<"C", "2">>), Undefined}]

\* ------------------------------------------------------------------- state
VARIABLES
    name,        \* this.name (Bot constructor: params.name)
    users,       \* this.users, the user roster
    storeExists, \* fs.existsSync(this.dbPath)
    info,        \* VAL of the INFO rows with NAME = "lastrun", in rowid order
    now,         \* the clock read by new Date()
    status,      \* "constructed", "running", "exited" (process.exit), "crashed"
    exitCode,    \* the argument of process.exit, 0 while none
    user,        \* this.user
    db,          \* this.db: "null" or "open"
    firstRun,    \* the pending step of _firstRunCheck
    queries,     \* glossary lookups in flight
    posted,      \* calls of postMessageToChannel, in order
    runs,        \* processes started so far
    nmsgs,       \* inbound events so far
    last,        \* history: what _onMessage did with the latest event
    act,         \* history: what the first-run check of this process found
    errored      \* history: ids of the events whose lookup failed

vars == <<name, users, storeExists, info, now, status, exitCode, user, db,
          firstRun, queries, posted, runs, nmsgs, last, act, errored>>

NoFirstRun == [op |-> "none", time |-> 0]
NoAct == [found |-> "unknown", rowsBefore |-> 0, welcomes |-> 0, time |-> 0,
          wrote |-> "no"]
NoLast == [id |-> 0]

\* ------------------------------------------------------------- constructor
\* this.settings.name = this.settings.name || 'saganbot'
Constructor(settingsName) ==
    IF Truthy(settingsName) THEN settingsName.s
    ELSE <<"s", "a", "g", "a", "n", "b", "o", "t">>

Init ==
    /\ \E sn \in SettingsNames : name = Constructor(sn)
    /\ \E listed \in BOOLEAN :
          users = IF listed THEN <<alice, [id |-> "UBOT", name |-> name]>>
                  ELSE <<alice>>
    /\ storeExists \in BOOLEAN
    /\ info = <<>>
    /\ now = 1
    /\ status = "constructed"
    /\ exitCode = 0
    /\ user = Null
    /\ db = "null"
    /\ firstRun = NoFirstRun
    /\ queries = {}
    /\ posted = <<>>
    /\ runs = 1
    /\ nmsgs = 0
    /\ last = NoLast
    /\ act = NoAct
    /\ errored = {}

\* ------------------------------------------------------------------ start
\* this.users.filter(function (user) { return user.name === self.name; })[0]
_loadBotUser ==
    LET found == SelectSeq(users, LAMBDA u : u.name = name)
    IN  IF Len(found) > 0 THEN found[1] ELSE Undefined

_connectDb_noExit == [exit |-> FALSE, code |-> 0, db |-> "open"]

\* _connectDb: exit is TRUE when process.exit(1) is called, else db is opened
_connectDb ==
    IF ~storeExists THEN [exit |-> TRUE, code |-> 1, db |-> db]
    ELSE [exit |-> FALSE, code |-> 0, db |-> "open"]

\* _onStart: _loadBotUser(); _connectDb(); _firstRunCheck() issues the SELECT
_onStart ==
    /\ status = "constructed"
    /\ user' = _loadBotUser
    /\ LET c == _connectDb
       IN  IF c.exit
           THEN /\ status' = "exited"
                /\ exitCode' = c.code
                /\ UNCHANGED <<db, firstRun>>
           ELSE /\ status' = "running"
                /\ db' = c.db
                /\ firstRun' = [op |-> "select", time |-> 0]
                /\ UNCHANGED exitCode
    /\ UNCHANGED <<name, users, storeExists, info, now, queries, posted,
                   runs, nmsgs, last, act, errored>>

\* ---------------------------------------------------------- first-run check
\* a JavaScript string the model never looks into
Text(x) == [t |-> "text", v |-> x]

WelcomeText == Text("Hello there!")

\* postMessageToChannel(name, text, {as_user: true}); re, msg, self and errs
\* are history: the event answered (0 for the welcome), its message, this.user
\* and the lookups that had failed by then
Post(chanName, text, re, msg) ==
    [channel |-> chanName, text |-> text, as_user |-> TRUE,
     re |-> re, msg |-> msg, self |-> user, errs |-> errored]

\* _welcomeMessage: posts to this.channels[0].name
_welcomeMessage == Post(channels[1].name, WelcomeText, 0, Undefined)

\* SELECT VAL FROM INFO WHERE NAME = "lastrun" LIMIT 1, as db.get returns it
SelectLastrun == IF Len(info) > 0 THEN Num(info[1]) ELSE Undefined

\* the callback of db.get in _firstRunCheck
firstRunCheckCallback ==
    /\ status = "running"
    /\ firstRun.op = "select"
    /\ \E err \in BOOLEAN :
          IF err
          THEN \* return console.error(...)
               /\ firstRun' = [op |-> "done", time |-> 0]
               /\ UNCHANGED <<posted, act>>
          ELSE LET record == SelectLastrun
                   currentTime == now
               IN  IF ~Truthy(record)
                   THEN /\ posted' = Append(posted, _welcomeMessage)
                        /\ firstRun' = [op |-> "insert", time |-> currentTime]
                        /\ act' = [found |-> "absent", rowsBefore |-> Len(info),
                                   welcomes |-> act.welcomes + 1,
                                   time |-> currentTime, wrote |-> "no"]
                   ELSE /\ firstRun' = [op |-> "update", time |-> currentTime]
                        /\ act' = [found |-> "present", rowsBefore |-> Len(info),
                                   welcomes |-> act.welcomes,
                                   time |-> currentTime, wrote |-> "no"]
                        /\ UNCHANGED posted
    /\ UNCHANGED <<name, users, storeExists, info, now, status, exitCode, user,
                   db, queries, runs, nmsgs, last, errored>>

\* INSERT INTO INFO VALUES("lastrun", ?)
InsertLastrun(val) == Append(info, val)

\* UPDATE INFO SET VAL = ? WHERE NAME = "lastrun"
UpdateLastrun(val) == [i \in 1..Len(info) |-> val]

\* the store executes the db.run issued by the callback.  db.run has no
\* callback here: a failure is emitted as an 'error' event on the handle, which
\* nobody listens to, so the process either goes on or dies of it.
dbRun ==
    /\ status = "running"
    /\ firstRun.op \in {"insert", "update"}
    /\ \E ok \in BOOLEAN :
          IF ok
          THEN /\ info' = IF firstRun.op = "insert"
                          THEN InsertLastrun(firstRun.time)
                          ELSE UpdateLastrun(firstRun.time)
               /\ act' = [act EXCEPT !.wrote = "ok"]
               /\ UNCHANGED status
          ELSE /\ act' = [act EXCEPT !.wrote = "failed"]
               /\ status' \in {"running", "crashed"}
               /\ UNCHANGED info
    /\ firstRun' = [op |-> "done", time |-> firstRun.time]
    /\ UNCHANGED <<name, users, storeExists, now, exitCode, user, db, queries,
                   posted, runs, nmsgs, last, errored>>

\* ---------------------------------------------------------------- filters
\* message.type === 'message' && Boolean(message.text)
_isChatMessage(message) ==
    message.type = "message" /\ Truthy(message.text)

_isChannelConversation_anyString(message) == message.channel.t = "string"

\* typeof message.channel === 'string' && message.channel[0] === 'C'
_isChannelConversation(message) ==
    /\ message.channel.t = "string"
    /\ Len(message.channel.s) > 0
    /\ message.channel.s[1] = "C"

\* message.text.toLowerCase().indexOf('vra') > -1 ||
\* message.text.toLowerCase().indexOf(this.name) > -1
_isMentioningvRA(message) ==
    \/ indexOf(toLowerCase(message.text.s), <<"v", "r", "a">>) > -1
    \/ indexOf(toLowerCase(message.text.s), name) > -1

_isFromSaganBot_never(message) ==
    [threw |-> user \in {Null, Undefined}, val |-> FALSE]

\* message.user === this.user.id; reading .id of null or undefined throws
_isFromSaganBot(message) ==
    IF user \in {Null, Undefined}
    THEN [threw |-> TRUE, val |-> FALSE]
    ELSE [threw |-> FALSE, val |-> message.user = user.id]

\* the condition of _onMessage, left to right with && short-circuit:
\* which filters ran, whether all four passed, whether one threw
Filters(message) ==
    IF ~_isChatMessage(message)
    THEN [evald |-> <<"_isChatMessage">>, pass |-> FALSE, threw |-> FALSE]
    ELSE IF ~_isChannelConversation(message)
    THEN [evald |-> <<"_isChatMessage", "_isChannelConversation">>,
          pass |-> FALSE, threw |-> FALSE]
    ELSE LET own == _isFromSaganBot(message)
         IN  IF own.threw \/ own.val
             THEN [evald |-> <<"_isChatMessage", "_isChannelConversation",
                               "_isFromSaganBot">>,
                   pass |-> FALSE, threw |-> own.threw]
             ELSE [evald |-> <<"_isChatMessage", "_isChannelConversation",
                               "_isFromSaganBot", "_isMentioningvRA">>,
                   pass |-> _isMentioningvRA(message), threw |-> FALSE]

\* ----------------------------------------------------------------- lookup
\* _replyWithDescription up to db.all: the query and the value bound to ?
_replyWithDescription(id, originalMessage) ==
    LET queryMessage == slice(originalMessage.text.s, 4,
                              Len(originalMessage.text.s))
    IN  [id |-> id, msg |-> originalMessage, param |-> ToNumber(queryMessage)]

\* _onMessage.  An exception leaves the handler; the emitter's caller either
\* logs it or lets it end the process.
_onMessage ==
    /\ status = "running"
    /\ nmsgs < MaxMsgs
    /\ \E message \in Messages :
          LET f == Filters(message)
              id == nmsgs + 1
          IN  /\ queries' = IF f.pass
                            THEN queries \cup {_replyWithDescription(id, message)}
                            ELSE queries
              /\ status' \in IF f.threw THEN {"running", "crashed"}
                             ELSE {"running"}
              /\ last' = [id |-> id, msg |-> message, evald |-> f.evald,
                          issued |-> f.pass, threw |-> f.threw, self |-> user]
    /\ nmsgs' = nmsgs + 1
    /\ UNCHANGED <<name, users, storeExists, info, now, exitCode, user, db,
                   firstRun, posted, runs, act, errored>>

\* this.channels.filter(function (item) { return item.id === channelId; })[0]
_getChannelById(channelId) ==
    LET found == SelectSeq(channels, LAMBDA item : item.id = channelId)
    IN  IF Len(found) > 0 THEN found[1] ELSE Undefined

\* SELECT DESCRIPTION,PREREQS FROM GLOSSARY WHERE TERM = ?  with a number
\* bound to ?: the possible row arrays db.all hands to the callback.  NaN is
\* bound as NULL and equals nothing; whether a number equals a TERM of the
\* same digits depends on the column's affinity, which the schema decides.
QueryRows(param) ==
    IF param = NaN THEN {<<>>}
    ELSE {<<>>} \cup
         {<<[DESCRIPTION |-> r.DESCRIPTION, PREREQS |-> r.PREREQS]>> :
             r \in {g \in GLOSSARY : ToNumber(g.TERM) = param}}

\* the callback of db.all in _replyWithDescription: it returns on err, throws
\* a TypeError at channel.name when the roster has no such channel, else posts
callbackOutcome_noReturn(err, channel) ==
    IF channel = Undefined THEN "throw" ELSE "post"

callbackOutcome(err, channel) ==
    IF err THEN "return"
    ELSE IF channel = Undefined THEN "throw"
    ELSE "post"

replyCallback ==
    /\ status = "running"
    /\ \E q \in queries, err \in BOOLEAN :
       \E record \in QueryRows(q.param) :
          LET channel == _getChannelById(q.msg.channel)
              outcome == callbackOutcome(err, channel)
          IN  /\ queries' = queries \ {q}
              /\ errored' = IF err THEN errored \cup {q.id} ELSE errored
              /\ posted' = IF outcome = "post"
                            THEN Append(posted,
                                        Post(channel.name,
                                             ArrayGet(record, "DESCRIPTION"),
                                             q.id, q.msg))
                            ELSE posted
              /\ status' \in IF outcome = "throw" THEN {"running", "crashed"}
                             ELSE {"running"}
    /\ UNCHANGED <<name, users, storeExists, info, now, exitCode, user, db,
                   firstRun, runs, nmsgs, last, act>>

\* ---------------------------------------------------------------- restart
\* the process ends (it exited, crashed or was stopped from outside) and the
\* bot is constructed again with the same settings against the same store
Restart ==
    /\ status \in {"running", "exited", "crashed"}
    /\ runs < MaxRuns
    /\ runs' = runs + 1
    /\ now' = now + 1
    /\ status' = "constructed"
    /\ exitCode' = 0
    /\ user' = Null
    /\ db' = "null"
    /\ firstRun' = NoFirstRun
    /\ queries' = {}
    /\ last' = NoLast
    /\ act' = NoAct
    /\ UNCHANGED <<name, users, storeExists, info, posted, nmsgs, errored>>

Next ==
    \/ _onStart
    \/ firstRunCheckCallback
    \/ dbRun
    \/ _onMessage
    \/ replyCallback
    \/ Restart

Spec == Init /\ [][Next]_vars

\* one process from construction to its end, without a restart
NextRun ==
    \/ _onStart
    \/ firstRunCheckCallback
    \/ dbRun
    \/ _onMessage
    \/ replyCallback

SpecRun == Init /\ [][NextRun]_vars

TypeOK ==
    /\ status \in {"constructed", "running", "exited", "crashed"}
    /\ db \in {"null", "open"}
    /\ runs \in 1..MaxRuns
    /\ nmsgs \in 0..MaxMsgs

\* ================================================================= claims
Resolved(u) == u \notin {Null, Undefined}

Replies == {i \in 1..Len(posted) : posted[i].re # 0}
Welcomes == {i \in 1..Len(posted) : posted[i].re = 0}

\* the message is a chat message in a public channel (filters 1 and 2)
PublicChat(m) ==
    /\ m.type = "message"
    /\ m.text.t = "string" /\ m.text.s # <<>>
    /\ m.channel.t = "string" /\ m.channel.s # <<>> /\ m.channel.s[1] = "C"

Contains(hay, needle) == indexOf(hay, needle) > -1

MentionsVra(m) == Contains(toLowerCase(m.text.s), <<"v", "r", "a">>)

\* the text after its first 4 characters
TermOf(m) == slice(m.text.s, 4, Len(m.text.s))

\* C1: a message whose author is the resolved bot identity never leads to a
\* glossary query nor to a post: the handler issues no lookup for it, no
\* lookup in flight is for such a message and no reply answers one.
C1_NoSelfReply ==
    /\ (last.id # 0 /\ Resolved(last.self) /\ last.msg.user = last.self.id)
          => (~last.issued /\ \A q \in queries : q.id # last.id)
    /\ Resolved(user) => \A q \in queries : q.msg.user # user.id
    /\ \A i \in Replies :
          Resolved(posted[i].self) => posted[i].msg.user # posted[i].self.id

\* a self-authored public chat message mentioning the trigger was handled
C1_Witness ==
    /\ last.id # 0
    /\ Resolved(last.self)
    /\ last.msg.user = last.self.id
    /\ PublicChat(last.msg)
    /\ MentionsVra(last.msg)

\* C2: over the life of a store at most one welcome message is posted,
\* whatever fails and however many times the bot is started.
C2_WelcomeAtMostOnce == Cardinality(Welcomes) <= 1

\* C3: once the first-run check of a process is through, a check that found
\* no "lastrun" record has posted one welcome to the first channel and left
\* exactly one record holding its timestamp; a check that found a record has
\* posted none, kept the number of records and set them to its timestamp.
C3_FirstRunOutcome ==
    firstRun.op = "done" =>
        /\ act.found = "absent" =>
              /\ act.welcomes = 1
              /\ Len(info) = 1
              /\ info[1] = act.time
        /\ act.found = "present" =>
              /\ act.welcomes = 0
              /\ Len(info) = act.rowsBefore
              /\ \A i \in 1..Len(info) : info[i] = act.time

\* C4: a reply to a message whose text after 4 characters is a glossary TERM
\* carries that entry's DESCRIPTION, goes to the channel with the message's
\* channel id, as the bot itself, and there is one such reply at most.
C4_ReplyIsDescription ==
    \A i \in Replies :
        \A g \in GLOSSARY :
            g.TERM = TermOf(posted[i].msg) =>
                /\ posted[i].text = Text(g.DESCRIPTION)
                /\ \E c \in 1..Len(channels) :
                      /\ channels[c].id = posted[i].msg.channel
                      /\ channels[c].name = posted[i].channel
                /\ posted[i].as_user
                /\ \A j \in Replies : posted[j].re = posted[i].re => j = i

\* C5: an event that is not a chat message in a public channel issues no
\* query, has no reply and raises nothing, and the filters after the failing
\* one are not evaluated.
C5_NonChatIgnored ==
    /\ (last.id # 0 /\ ~PublicChat(last.msg)) =>
          /\ ~last.issued
          /\ ~last.threw
          /\ \A q \in queries : q.id # last.id
          /\ \A i \in Replies : posted[i].re # last.id
          /\ last.evald =
                IF last.msg.type = "message" /\ Truthy(last.msg.text)
                THEN <<"_isChatMessage", "_isChannelConversation">>
                ELSE <<"_isChatMessage">>
    /\ \A q \in queries : PublicChat(q.msg)
    /\ \A i \in Replies : PublicChat(posted[i].msg)

\* a chat message mentioning the trigger, by someone else, in a direct
\* message conversation was handled
C5_Witness ==
    /\ last.id # 0
    /\ last.msg.type = "message"
    /\ last.msg.text = VraCloud
    /\ last.msg.channel = Str(<<"D", "1">>)
    /\ Resolved(last.self)
    /\ last.msg.user # last.self.id

\* C6: a message that passes the first three filters is looked up exactly
\* when its lowercased text contains "vra" or the lowercased bot name.
C6_TriggerFilter ==
    (/\ last.id # 0
     /\ PublicChat(last.msg)
     /\ Resolved(last.self)
     /\ last.msg.user # last.self.id)
      => (last.issued <=>
            \/ MentionsVra(last.msg)
            \/ Contains(toLowerCase(last.msg.text.s), toLowerCase(name)))

\* C7: with no store at the configured path, handling 'start' ends the
\* process with exit code 1, the handle is never opened, the first-run check
\* never runs and nothing is posted or looked up.
C7_FatalOnMissingStore ==
    (~storeExists /\ status # "constructed") =>
        /\ status = "exited"
        /\ exitCode = 1
        /\ db = "null"
        /\ firstRun = NoFirstRun
        /\ act = NoAct
        /\ posted = <<>>
        /\ queries = {}
        /\ nmsgs = 0

\* 'start' was handled with the store missing
C7_Witness == ~storeExists /\ status = "exited" /\ exitCode = 1

\* C8: the value bound to TERM is the text without its first 4 characters,
\* as a string.
C8_TermVerbatim ==
    \A q \in queries : q.param = Str(TermOf(q.msg))

\* C9: with no roster user of the bot's name the identity stays unset, the
\* self check raises nothing and a public chat message mentioning the
\* trigger is looked up.
C9_UnresolvedDegrades ==
    /\ (status = "running" /\ _loadBotUser = Undefined) => user = Undefined
    /\ (last.id # 0 /\ ~Resolved(last.self) /\ PublicChat(last.msg)
          /\ MentionsVra(last.msg))
          => (~last.threw /\ last.issued)

====
